---------------------------- MODULE Spec2Model ----------------------------
(***************************************************************************)
(* A model of src/app.py: the Naver DataLab / YouTube keyword dashboard.   *)
(*                                                                         *)
(* Strings are sequences of one-character strings, so that splitting and   *)
(* trimming are computed character by character as str.splitlines,         *)
(* str.strip and str.split compute them.  Ratios are integers in units of  *)
(* 10^-6 (round(x, 6) keeps six decimals).  Time is in seconds.            *)
(***************************************************************************)
EXTENDS Integers, Sequences, FiniteSets, TLC

VARIABLES
    arg,        \* argument of the pure function under study
    ret,        \* <<>> before the call, <<v>> once it returned v
    now,        \* wall clock, seconds
    cache,      \* st.cache_data: per function, a set of entries [key, value, at]
    pc,         \* position of the running fetch: "idle" when none runs
    call,       \* the running (or last) fetch call: [fn, key, caller]
    all_ids,    \* fetch_all_youtube: identifiers collected so far
    page_token, \* fetch_all_youtube: continuation token for the next search
    out,        \* _videos_list_chunked: records gathered so far
    i,          \* _videos_list_chunked: offset of the next chunk
    net,        \* network calls issued since the interaction/call began
    result,     \* outcome of the last fetch call: [status, value]
    ui,         \* what the last script run presented
    widgets,    \* widget values of the last script run
    secrets,    \* which credentials the process was started with
    ledger      \* history: what each executed fetch body last returned, by key

vars == <<arg, ret, now, cache, pc, call, all_ids, page_token, out, i, net,
          result, ui, widgets, secrets, ledger>>

pureVars == <<arg, ret>>
appVars  == <<now, cache, pc, call, all_ids, page_token, out, i, net, result,
              ui, widgets, secrets, ledger>>

-----------------------------------------------------------------------------
(* Bounds of the model. *)

MaxTextLen == 7     \* longest text handed to parse_groups
MaxCount   == 6     \* largest view/like/comment count handed to calc_ratios
MaxVideos  == 3     \* longest list handed to yt_to_dataframe
MaxPages   == 3     \* most search pages a provider of full pages serves for one query
MaxBrief   == 2     \* most search pages a provider of short pages serves
MaxTicks   == 3     \* the clock stops after this many ticks

-----------------------------------------------------------------------------
(* Generic helpers. *)

NotCalled == <<>>      \* ret before the call; <<v>> once the function returned v
None      == "None"

Min(S) == CHOOSE x \in S : \A y \in S : x <= y
Max(S) == CHOOSE x \in S : \A y \in S : x >= y

Last(s)  == s[Len(s)]
Front(s) == SubSeq(s, 1, Len(s) - 1)

RECURSIVE Flatten(_)
Flatten(ss) == IF ss = <<>> THEN <<>> ELSE Head(ss) \o Flatten(Tail(ss))

RECURSIVE SeqsUpTo(_, _)
SeqsUpTo(S, n) ==
    IF n = 0 THEN {<<>>}
    ELSE LET shorter == SeqsUpTo(S, n - 1)
         IN  shorter \cup {Append(s, x) : s \in {t \in shorter : Len(t) = n - 1}, x \in S}

-----------------------------------------------------------------------------
(* Python string operations used by parse_groups. *)

NL == "\n"

IsSpace(c) == c \in {" ", NL}

\* str.strip(): drop leading and trailing whitespace.
RECURSIVE lstrip(_)
lstrip(s) == IF s # <<>> /\ IsSpace(Head(s)) THEN lstrip(Tail(s)) ELSE s

RECURSIVE rstrip(_)
rstrip(s) == IF s # <<>> /\ IsSpace(Last(s)) THEN rstrip(Front(s)) ELSE s

\* A strip that forgets the trailing whitespace.
strip_leading_only(s) == lstrip(s)

strip(s) == rstrip(lstrip(s))

\* str.split(sep): every separator cuts; empty pieces are kept.
RECURSIVE split(_, _)
split(s, sep) ==
    IF s = <<>> THEN << <<>> >>
    ELSE LET rest == split(Tail(s), sep)
         IN  IF Head(s) = sep
             THEN << <<>> >> \o rest
             ELSE << <<Head(s)>> \o Head(rest) >> \o Tail(rest)

\* str.split(sep, 1) on a string that contains sep: cut at the first one only.
RECURSIVE split1(_, _)
split1(s, sep) ==
    IF Head(s) = sep THEN << <<>>, Tail(s) >>
    ELSE LET rest == split1(Tail(s), sep)
         IN  << <<Head(s)>> \o rest[1], rest[2] >>

\* str.splitlines(): cut at line breaks; a trailing break opens no last line.
splitlines(s) ==
    LET parts == split(s, NL)
    IN  IF Last(parts) = <<>> THEN Front(parts) ELSE parts

contains(s, c) == \E k \in 1..Len(s) : s[k] = c

NonEmpty(s) == s # <<>>

\* One iteration of the loop of parse_groups (lines 51-58).
parse_line(groups, raw) ==
    LET line == strip(raw)
    IN  IF line = <<>> \/ ~contains(line, ":") THEN groups
        ELSE LET parts    == split1(line, ":")
                 name     == strip(parts[1])
                 kws      == split(parts[2], ",")
                 keywords == SelectSeq([k \in 1..Len(kws) |-> strip(kws[k])], NonEmpty)
             IN  IF name # <<>> /\ keywords # <<>>
                 THEN Append(groups, [groupName |-> name, keywords |-> keywords])
                 ELSE groups

RECURSIVE parse_loop(_, _)
parse_loop(groups, lines) ==
    IF lines = <<>> THEN groups
    ELSE parse_loop(parse_line(groups, Head(lines)), Tail(lines))

parse_groups(text) == parse_loop(<<>>, splitlines(text))

-----------------------------------------------------------------------------
(* calc_ratios and yt_to_dataframe. *)

Decimals == 6
MinViews == 100

Micro == 10 ^ Decimals

max0(x) == IF x > 0 THEN x ELSE 0

\* A rounding that truncates instead of rounding to nearest.
round6_truncating(n, d) == (n * Micro) \div d

\* round(n / d, 6) in units of 10^-6, for n >= 0 and d > 0.  Python rounds the
\* double nearest to n/d; that double is within 2^-53 relative of n/d, so the
\* result is the nearest multiple of 10^-6 whenever n/d is not exactly half way
\* between two of them.  A half-way quotient needs d to be a multiple of 128
\* (2*n*10^6 = (2k+1)*d); there the exactly representable case rounds half to
\* even, which is what is written here.
round6(n, d) ==
    LET q == (n * Micro) \div d
        r == (n * Micro) % d
    IN  IF 2 * r < d THEN q
        ELSE IF 2 * r > d THEN q + 1
        ELSE IF q % 2 = 0 THEN q ELSE q + 1

\* An ISO-8601 timestamp string for instant t is <<"iso", t>>; "" is the empty
\* string.  datetime.fromisoformat recovers the instant.
fromisoformat(s) == s[2]

calc_ratios(row) ==
    LET view == max0(row.view_count)
        like == max0(row.like_count)
        comt == max0(row.comment_count)
    IN  [like_ratio    |-> IF view # 0 THEN round6(like, view) ELSE 0,
         comment_ratio |-> IF view # 0 THEN round6(comt, view) ELSE 0,
         pub_dt        |-> IF row.published_at # "" THEN fromisoformat(row.published_at)
                           ELSE None]

Columns == <<"title", "url", "published_at", "view_count", "like_ratio", "comment_ratio">>

\* A filter that also drops the records with exactly MinViews views.
yt_keep_strictly_above(v) == v.view_count > MinViews

\* The test of line 225, negated: the record is kept.
yt_keep(v) == ~(v.view_count < MinViews)

yt_row(v) ==
    LET r == calc_ratios(v)
    IN  [title         |-> v.title,
         url           |-> v.url,
         published_at  |-> r.pub_dt,
         view_count    |-> v.view_count,
         like_ratio    |-> r.like_ratio,
         comment_ratio |-> r.comment_ratio]

\* Lines 223-235: the rows of the records that pass the test, in input order.
yt_rows(videos) ==
    LET kept == SelectSeq(videos, yt_keep)
    IN  [k \in 1..Len(kept) |-> yt_row(kept[k])]

\* A DataFrame is its column names and its rows.  pd.DataFrame(rows) of an
\* empty list has no columns.
yt_to_dataframe(videos) ==
    IF videos = <<>> THEN [columns |-> Columns, rows |-> <<>>]
    ELSE LET rows == yt_rows(videos)
         IN  [columns |-> IF rows = <<>> THEN <<>> ELSE Columns, rows |-> rows]

-----------------------------------------------------------------------------
(* The pure functions, each applied once to an argument drawn from a       *)
(* bounded set.  The application's own state stays idle.                   *)

NoCall   == [fn |-> None, key |-> None, caller |-> None]
NoResult == [status |-> None, value |-> <<>>]
NoUi     == [shown |-> None, metric |-> 0, table |-> <<>>]
NoCache  == [fetch_datalab |-> {}, fetch_all_youtube |-> {}]

AppIdle ==
    /\ now = 0 /\ cache = NoCache /\ ledger = NoCache /\ pc = "idle" /\ call = NoCall
    /\ all_ids = <<>> /\ page_token = 0 /\ out = <<>> /\ i = 0
    /\ net = <<>> /\ result = NoResult /\ ui = NoUi
    /\ widgets = [mode |-> None, run |-> FALSE]
    /\ secrets = [naver |-> TRUE, youtube |-> TRUE]

Chars == {"a", " ", ":", ",", NL}

InitParse == arg \in SeqsUpTo(Chars, MaxTextLen) /\ ret = NotCalled /\ AppIdle

CallParseGroups ==
    /\ ret = NotCalled
    /\ ret' = <<parse_groups(arg)>>
    /\ UNCHANGED <<arg, appVars>>

SpecParse == InitParse /\ [][CallParseGroups]_vars

Counts == -1 .. MaxCount
Stamps == {"", <<"iso", 1>>}

InitRatios ==
    /\ arg \in [view_count : Counts, like_count : Counts, comment_count : Counts,
                published_at : Stamps]
    /\ ret = NotCalled
    /\ AppIdle

CallCalcRatios ==
    /\ ret = NotCalled
    /\ ret' = <<calc_ratios(arg)>>
    /\ UNCHANGED <<arg, appVars>>

SpecRatios == InitRatios /\ [][CallCalcRatios]_vars

VideoSamples ==
    [title : {"x", "y"}, url : {"u"}, published_at : {<<"iso", 1>>},
     view_count : {MinViews - 1, MinViews, MinViews + 1},
     like_count : {0, MinViews \div 2}, comment_count : {1}]

InitTable ==
    /\ arg \in SeqsUpTo(VideoSamples, MaxVideos)
    /\ ret = NotCalled
    /\ AppIdle

CallYtToDataframe ==
    /\ ret = NotCalled
    /\ ret' = <<yt_to_dataframe(arg)>>
    /\ UNCHANGED <<arg, appVars>>

SpecTable == InitTable /\ [][CallYtToDataframe]_vars

-----------------------------------------------------------------------------
(* The result cache of the two fetchers: @st.cache_data(ttl=600).          *)
(* An entry is kept with the time it was stored; it answers a call with    *)
(* the same parameters while it is younger than the time-to-live.          *)

ttl_fetch_datalab     == 600
ttl_fetch_all_youtube == 600

ttl(fn) == IF fn = "fetch_datalab" THEN ttl_fetch_datalab ELSE ttl_fetch_all_youtube

\* An entry that never expires.
Fresh_forever(fn, e, t) == TRUE

Fresh(fn, e, t) == t - e.at < ttl(fn)

Hits(fn, key, t) == {e \in cache[fn] : e.key = key /\ Fresh(fn, e, t)}

Stored(c, fn, key, value, t) ==
    [c EXCEPT ![fn] = {e \in @ : e.key # key} \cup {[key |-> key, value |-> value, at |-> t]}]

-----------------------------------------------------------------------------
(* fetch_datalab: the request and the conversion of the response.          *)

\* date.strftime("%Y-%m-%d") and pd.to_datetime: day d is the string <<"ymd", d>>.
strftime(d)    == <<"ymd", d>>
to_datetime(s) == s[2]

payload(key) ==
    [startDate     |-> strftime(key.start_date),
     endDate       |-> strftime(key.end_date),
     timeUnit      |-> key.time_unit,
     keywordGroups |-> key.keyword_groups]

EmptyFrame == [columns |-> <<>>, rows |-> <<>>]

\* Lines 91-96: the rows of one result series, each with the series' title.
series_frame(res) ==
    [k \in 1..Len(res.data) |->
        [period |-> res.data[k].period, ratio |-> res.data[k].ratio, title |-> res.title]]

\* Lines 88-103: series without rows are skipped, the others concatenated and
\* their periods converted.
RECURSIVE concat_frames(_)
concat_frames(results) ==
    IF results = <<>> THEN <<>>
    ELSE (IF Head(results).data = <<>> THEN <<>> ELSE series_frame(Head(results)))
         \o concat_frames(Tail(results))

datalab_frame(parsed) ==
    LET rows == concat_frames(parsed.results)
    IN  IF rows = <<>> THEN EmptyFrame
        ELSE [columns |-> <<"period", "ratio", "title">>,
              rows    |-> [k \in 1..Len(rows) |->
                              [rows[k] EXCEPT !.period = to_datetime(rows[k].period)]]]

\* A call to fetch_datalab that tests nothing before posting.
not_keyword_groups_never(keyword_groups) == FALSE

\* Line 64: `if not keyword_groups`.
not_keyword_groups(keyword_groups) == keyword_groups = <<>>

\* What the trend API may answer: code 0 stands for a timeout, a code outside
\* 2xx makes urlopen raise, a 2xx code other than 200 is raised by line 84.
\* A 200 answer carries one series per group, each with the same rows: none,
\* or the two days of the range, later day first.
DatalabData(key) ==
    { <<>>,
      << [period |-> strftime(key.end_date),   ratio |-> 100],
         [period |-> strftime(key.start_date), ratio |-> 50] >> }

DatalabResponses(key) ==
    { [code |-> c, results |-> <<>>] : c \in {0, 204, 500} }
    \cup { [code    |-> 200,
            results |-> [g \in 1..Len(key.keyword_groups) |->
                            [title |-> key.keyword_groups[g].groupName, data |-> d]]]
           : d \in DatalabData(key) }

-----------------------------------------------------------------------------
(* fetch_all_youtube: the requests and the conversion of the responses.    *)

maxResults == 50    \* search page size
ChunkSize  == 50    \* identifiers per detail call

\* Python truthiness of a continuation token: None is 0 here.
truthy(token) == token # 0

\* Line 184: the identifiers of a page; an item without a videoId (0) is skipped.
page_ids(items) ==
    LET with == SelectSeq(items, LAMBDA it : it.videoId # 0)
    IN  [k \in 1..Len(with) |-> with[k].videoId]

\* An accumulation that drops the identifiers already collected.
RECURSIVE extend_unique(_, _)
extend_unique(all, ids) ==
    IF ids = <<>> THEN all
    ELSE extend_unique(IF \E k \in 1..Len(all) : all[k] = Head(ids) THEN all
                       ELSE Append(all, Head(ids)),
                       Tail(ids))

\* Line 185: all_ids.extend(ids).
extend(all, ids) == all \o ids

\* A chunk that reaches one identifier into the next chunk.
chunk_overlapping(ids, k) ==
    SubSeq(ids, k + 1, IF k + ChunkSize + 1 < Len(ids) THEN k + ChunkSize + 1 ELSE Len(ids))

\* Line 158: ids[i:i+50].
chunk(ids, k) ==
    SubSeq(ids, k + 1, IF k + ChunkSize < Len(ids) THEN k + ChunkSize ELSE Len(ids))

\* A decimal string for n is <<"int", n>>; a field the provider left out is <<>>.
Absent    == <<>>
str(n)    == <<"int", n>>
int(s)    == s[2]

\* Lines 196-207: one detail item as a video record.
video_of(it) ==
    [title         |-> it.snippet.title,
     published_at  |-> it.snippet.publishedAt,
     url           |-> <<"https://www.youtube.com/watch?v=", it.id>>,
     view_count    |-> IF it.statistics.viewCount # Absent
                       THEN int(it.statistics.viewCount) ELSE 0,
     like_count    |-> IF it.statistics.likeCount # Absent
                       THEN int(it.statistics.likeCount) ELSE 0,
     comment_count |-> IF it.statistics.commentCount # Absent
                       THEN int(it.statistics.commentCount) ELSE 0]

videos_of(details) == [k \in 1..Len(details) |-> video_of(details[k])]

\* What the video API may answer to a search: a failure, or a page of `len`
\* items with identifiers 1..len (so that pages repeat identifiers), the first
\* of which may carry no videoId, and a continuation token or none.  The
\* provider serves at most provider.pages pages for one query.
SearchPages(provider, nth) ==
    { [ok            |-> TRUE,
       items         |-> [k \in 1..n |-> [videoId |-> IF hole /\ k = 1 THEN 0 ELSE k]],
       nextPageToken |-> t]
      : n \in provider.lens, hole \in provider.holes,
        t \in IF nth >= provider.pages THEN {0} ELSE {0} \cup provider.tokens }

SearchFailure == [ok |-> FALSE, items |-> <<>>, nextPageToken |-> 0]

\* What the video API may answer to a detail call: a failure, or items for the
\* requested identifiers in request order: for all of them, for all but the
\* first, for the first two or for the second only (the videos removed
\* meanwhile have no item).  Video v has MinViews - 2 + v views and was
\* published at instant v; video 1 reports no like count.
detail_item(v) ==
    [id         |-> v,
     snippet    |-> [title |-> <<"video", v>>, publishedAt |-> <<"iso", v>>],
     statistics |-> [viewCount    |-> str(MinViews - 2 + v),
                     likeCount    |-> IF v = 1 THEN Absent ELSE str(v),
                     commentCount |-> str(1)]]

Remaining(which, all) ==
    CASE which = "all"       -> all
      [] which = "all but 1" -> Tail(all)
      [] which = "first 2"   -> SubSeq(all, 1, IF Len(all) < 2 THEN Len(all) ELSE 2)
      [] which = "second"    -> SubSeq(all, 2, IF Len(all) < 2 THEN Len(all) ELSE 2)

DetailPages(provider, ids) ==
    LET all == [k \in 1..Len(ids) |-> detail_item(ids[k])]
    IN  { [ok |-> TRUE, items |-> Remaining(which, all)] : which \in provider.found }

DetailFailure == [ok |-> FALSE, items |-> <<>>]

-----------------------------------------------------------------------------
(* Presentation: what render_naver_datalab and render_youtube show.        *)

ord(c) ==
    CASE c = NL  -> 10
      [] c = " " -> 32
      [] c = "," -> 44
      [] c = ":" -> 58
      [] c = "a" -> 97
      [] c = "b" -> 98

RECURSIVE lex_less(_, _)
lex_less(s, t) ==
    IF t = <<>> THEN FALSE
    ELSE IF s = <<>> THEN TRUE
    ELSE IF Head(s) # Head(t) THEN ord(Head(s)) < ord(Head(t))
    ELSE lex_less(Tail(s), Tail(t))

\* Row a sorts before row b: by publish time, latest first (line 281), or by
\* title and then period (line 143).
before(by, a, b) ==
    IF by = "published_at" THEN a.published_at > b.published_at
    ELSE \/ lex_less(a.title, b.title)
         \/ a.title = b.title /\ a.period < b.period

\* DataFrame.sort_values: row k goes to the place given by the number of rows
\* that sort before it; rows that tie keep their order (rows that tie here
\* are equal in every column shown, so the order among them cannot be seen).
sort_values(by, rows) ==
    LET n     == Len(rows)
        place == [k \in 1..n |->
                     1 + Cardinality({j \in 1..n :
                             \/ before(by, rows[j], rows[k])
                             \/ ~before(by, rows[k], rows[j]) /\ j < k})]
    IN  [p \in 1..n |-> rows[CHOOSE k \in 1..n : place[k] = p]]

Message(shown) == [shown |-> shown, metric |-> 0, table |-> <<>>]

\* Lines 139-146.
present_datalab(df) ==
    IF df.rows = <<>> THEN Message("warning: no data")
    ELSE [shown |-> "table", metric |-> 0, table |-> sort_values("title,period", df.rows)]

\* Lines 269-293.
present_youtube(videos) ==
    LET df == yt_to_dataframe(videos)
    IN  [shown  |-> IF df.rows = <<>> THEN "info: no videos" ELSE "table",
         metric |-> Len(df.rows),
         table  |-> sort_values("published_at", df.rows)]

Present(caller, value) ==
    IF caller = "render_naver_datalab" THEN present_datalab(value)
    ELSE IF caller = "render_youtube" THEN present_youtube(value)
    ELSE ui

-----------------------------------------------------------------------------
(* Calling a cached fetcher, and how a call ends.                          *)

locals == <<all_ids, page_token, out, i>>

\* The locals of fetch_all_youtube before its first statement and after it ended.
NoLocals == all_ids = <<>> /\ page_token = 0 /\ out = <<>> /\ i = 0

ResetLocals == all_ids' = <<>> /\ page_token' = 0 /\ out' = <<>> /\ i' = 0

\* The call c returns `value`; a value the body computed is stored.
Return(c, value, executed) ==
    /\ cache'  = IF executed THEN Stored(cache, c.fn, c.key, value, now) ELSE cache
    /\ ledger' = IF executed THEN Stored(ledger, c.fn, c.key, value, now) ELSE ledger
    /\ result' = [status |-> "returned", value |-> <<value>>]
    /\ pc'     = "idle"
    /\ ui'     = Present(c.caller, value)
    /\ ResetLocals

\* A failure that is swallowed: the call returns what was gathered so far.
Raise_swallowed(c) ==
    Return(c, IF c.fn = "fetch_datalab" THEN EmptyFrame ELSE videos_of(out), FALSE)

\* The call c raises: nothing is stored, and a render shows the exception
\* (lines 147-148, 294-295).
Raise(c) ==
    /\ UNCHANGED <<cache, ledger>>
    /\ result' = [status |-> "raised", value |-> <<>>]
    /\ pc'     = "idle"
    /\ ui'     = IF c.caller = "direct" THEN ui ELSE Message("exception")
    /\ ResetLocals

\* fn(key) is called by `caller`: a fresh entry answers it; otherwise the
\* body runs up to its first network call.
Invoke(fn, key, caller) ==
    LET c   == [fn |-> fn, key |-> key, caller |-> caller]
        hit == Hits(fn, key, now)
    IN  /\ call' = c
        /\ IF hit # {} THEN Return(c, (CHOOSE e \in hit : TRUE).value, FALSE)
           ELSE IF fn = "fetch_datalab" /\ not_keyword_groups(key.keyword_groups)
                THEN Return(c, EmptyFrame, TRUE)
           ELSE /\ pc' = IF fn = "fetch_datalab" THEN "urlopen" ELSE "search"
                /\ ResetLocals
                /\ result' = NoResult
                /\ ui' = IF caller = "direct" THEN ui ELSE Message("running")
                /\ UNCHANGED <<cache, ledger>>

\* Lines 82-103: the POST, and the table made of its answer.
Urlopen ==
    /\ pc = "urlopen"
    /\ \E resp \in DatalabResponses(call.key) :
          /\ net' = Append(net, [kind |-> "urlopen", data |-> payload(call.key),
                                 code |-> resp.code])
          /\ \/ resp.code = 200 /\ Return(call, datalab_frame(resp), TRUE)
             \/ resp.code # 200 /\ Raise(call)
    /\ UNCHANGED <<call, now, widgets, secrets, pureVars>>

Searches(log) == SelectSeq(log, LAMBDA m : m.kind = "search")
Details(log)  == SelectSeq(log, LAMBDA m : m.kind = "videos")

\* Lines 170-192: one search call and what follows it up to the next network
\* call.  `provider` says what the video API may answer.
Search(provider) ==
    /\ pc = "search"
    /\ \E resp \in SearchPages(provider, Len(Searches(net)) + 1) \cup {SearchFailure} :
          /\ net' = Append(net, [kind |-> "search", q |-> call.key.keyword,
                                 maxResults |-> maxResults, pageToken |-> page_token,
                                 resp |-> resp])
          /\ \/ /\ ~resp.ok
                /\ Raise(call)
             \/ /\ resp.ok
                /\ LET ids == extend(all_ids, page_ids(resp.items))
                   IN  IF truthy(resp.nextPageToken)
                       THEN /\ all_ids' = ids
                            /\ page_token' = resp.nextPageToken
                            /\ UNCHANGED <<out, i, pc, cache, ledger, result, ui>>
                       ELSE IF ids = <<>>
                            THEN Return(call, <<>>, TRUE)
                            ELSE /\ all_ids' = ids
                                 /\ page_token' = resp.nextPageToken
                                 /\ pc' = "videos"
                                 /\ UNCHANGED <<out, i, cache, ledger, result, ui>>
    /\ UNCHANGED <<call, now, widgets, secrets, pureVars>>

\* Lines 157-159 and 195-208: one detail call; after the last chunk the
\* records are converted and returned.
Videos(provider) ==
    /\ pc = "videos"
    /\ LET ids == chunk(all_ids, i)
       IN  \E resp \in DetailPages(provider, ids) \cup {DetailFailure} :
              /\ net' = Append(net, [kind |-> "videos", id |-> ids, resp |-> resp])
              /\ \/ /\ ~resp.ok
                    /\ Raise(call)
                 \/ /\ resp.ok
                    /\ IF i + ChunkSize < Len(all_ids)
                       THEN /\ out' = out \o resp.items
                            /\ i' = i + ChunkSize
                            /\ UNCHANGED <<all_ids, page_token, pc, cache, ledger, result, ui>>
                       ELSE Return(call, videos_of(out \o resp.items), TRUE)
    /\ UNCHANGED <<call, now, widgets, secrets, pureVars>>

TickSeconds == ttl_fetch_datalab \div 2

Tick ==
    /\ now < MaxTicks * TickSeconds
    /\ now' = now + TickSeconds
    /\ UNCHANGED <<cache, ledger, pc, call, locals, net, result, ui, widgets, secrets,
                   pureVars>>

-----------------------------------------------------------------------------
(* The script runs: a widget change or a button press reruns app.py with   *)
(* the widget values w.                                                    *)

\* A date check that lets every range through.
dates_reversed_never(start_date, end_date) == FALSE

\* Line 128.
dates_reversed(start_date, end_date) == start_date > end_date

\* date.today() at time t.
today(t) == t \div (24 * 60 * 60)

\* Lines 36-42: the window of the last `months` months, as two timestamps.
iso_range_last_months(months, t) ==
    [after  |-> <<"iso", today(t), "minus months", months, "T00:00:00Z">>,
     before |-> <<"iso", today(t), "T23:59:59Z">>]

\* Nothing is fetched: the run ends with a message.
Show(shown) ==
    /\ ui' = Message(shown)
    /\ call' = NoCall
    /\ result' = NoResult
    /\ UNCHANGED <<cache, ledger, pc, locals>>

\* Lines 105-150.
render_naver_datalab(w) ==
    /\ pc = "idle"
    /\ widgets' = w
    /\ net' = <<>>
    /\ IF ~w.run THEN Show("info: press the button")
       ELSE IF ~secrets.naver THEN Show("error: credentials")
       ELSE IF dates_reversed(w.start_date, w.end_date) THEN Show("error: dates")
       ELSE LET groups == parse_groups(w.groups_raw)
            IN  IF groups = <<>> THEN Show("warning: groups")
                ELSE Invoke("fetch_datalab",
                            [start_date |-> w.start_date, end_date |-> w.end_date,
                             time_unit |-> w.time_unit, keyword_groups |-> groups],
                            "render_naver_datalab")
    /\ UNCHANGED <<now, secrets, pureVars>>

\* Lines 238-297.
render_youtube(w) ==
    /\ pc = "idle"
    /\ widgets' = w
    /\ net' = <<>>
    /\ LET keyword == strip(w.keyword)
       IN  IF ~w.run THEN Show("info: press the button")
           ELSE IF ~secrets.youtube THEN Show("error: credentials")
           ELSE IF keyword = <<>> THEN Show("error: keyword")
           ELSE LET range == iso_range_last_months(w.months_back, now)
                IN  Invoke("fetch_all_youtube",
                           [api_key |-> "key", keyword |-> keyword, order |-> w.order,
                            published_after |-> range.after,
                            published_before |-> range.before],
                           "render_youtube")
    /\ UNCHANGED <<now, secrets, pureVars>>

GroupTexts ==
    { <<>>,
      <<":", "a">>,
      <<"b", ":", "a", NL, "a", ":", " ", "a", ",", "b">> }

NaverWidgets ==
    [mode : {"Naver DataLab"}, start_date : {1, 3}, end_date : {2},
     time_unit : {"date"}, groups_raw : GroupTexts, run : BOOLEAN]

YoutubeWidgets ==
    [mode : {"YouTube"}, keyword : {<<>>, <<" ">>, <<"a", " ">>},
     months_back : {6}, order : {"date"}, run : BOOLEAN]

\* A provider of full pages, and one of short pages.
FullProvider ==
    [lens |-> {0, 1, maxResults}, holes |-> BOOLEAN, tokens |-> {1, 2},
     found |-> {"all", "all but 1"}, pages |-> MaxPages]
BriefProvider ==
    [lens |-> {0, maxResults}, holes |-> {FALSE}, tokens |-> {1},
     found |-> {"first 2", "second"}, pages |-> MaxBrief]

InitApp ==
    /\ arg = <<>> /\ ret = NotCalled
    /\ now = 0 /\ cache = NoCache /\ ledger = NoCache /\ pc = "idle" /\ call = NoCall
    /\ all_ids = <<>> /\ page_token = 0 /\ out = <<>> /\ i = 0
    /\ net = <<>> /\ result = NoResult /\ ui = NoUi
    /\ widgets = [mode |-> None, run |-> FALSE]
    /\ secrets \in [naver : BOOLEAN, youtube : BOOLEAN]

NextApp ==
    \/ \E w \in NaverWidgets : render_naver_datalab(w)
    \/ \E w \in YoutubeWidgets : render_youtube(w)
    \/ Urlopen
    \/ Search(BriefProvider)
    \/ Videos(BriefProvider)
    \/ Tick

SpecApp == InitApp /\ [][NextApp]_vars

-----------------------------------------------------------------------------
(* The fetchers called directly, with parameters drawn from small sets.    *)

DatalabKeys ==
    { [start_date |-> 2, end_date |-> 1, time_unit |-> "month", keyword_groups |-> <<>>],
      [start_date |-> 1, end_date |-> 2, time_unit |-> "date",
       keyword_groups |-> <<[groupName |-> <<"a">>, keywords |-> <<<<"a">>>>]>>] }

YoutubeKeys ==
    [api_key : {"key"}, keyword : {<<"a">>}, order : {"date"},
     published_after  : {iso_range_last_months(6, 0).after},
     published_before : {iso_range_last_months(6, 0).before}]

fetch_datalab(key) ==
    /\ pc = "idle"
    /\ net' = <<>>
    /\ Invoke("fetch_datalab", key, "direct")
    /\ UNCHANGED <<now, widgets, secrets, pureVars>>

fetch_all_youtube(key) ==
    /\ pc = "idle"
    /\ net' = <<>>
    /\ Invoke("fetch_all_youtube", key, "direct")
    /\ UNCHANGED <<now, widgets, secrets, pureVars>>

InitCalls == arg = <<>> /\ ret = NotCalled /\ AppIdle

NextCalls ==
    \/ \E key \in DatalabKeys : fetch_datalab(key)
    \/ \E key \in YoutubeKeys : fetch_all_youtube(key)
    \/ Urlopen
    \/ Search(BriefProvider)
    \/ Videos(BriefProvider)
    \/ Tick

SpecCalls == InitCalls /\ [][NextCalls]_vars

\* fetch_all_youtube alone, against a provider that serves full pages.
NextPaging ==
    \/ \E key \in YoutubeKeys : fetch_all_youtube(key)
    \/ Search(FullProvider)
    \/ Videos(FullProvider)

SpecPaging == InitCalls /\ [][NextPaging]_vars

-----------------------------------------------------------------------------
(* Properties of parse_groups (SpecParse).                                 *)
(* The claimed result is computed from character positions, not by the     *)
(* scanning operators above.                                               *)

Cuts(s, sep) == {k \in 1..Len(s) : s[k] = sep}

RECURSIVE SortedSeq(_)
SortedSeq(S) == IF S = {} THEN <<>> ELSE <<Min(S)>> \o SortedSeq(S \ {Min(S)})

PieceAt(s, sep, a) ==
    SubSeq(s, a, Min({k \in Cuts(s, sep) : k >= a} \cup {Len(s) + 1}) - 1)

Pieces(s, sep) ==
    LET starts == SortedSeq({1} \cup {k + 1 : k \in Cuts(s, sep)})
    IN  [j \in 1..Len(starts) |-> PieceAt(s, sep, starts[j])]

Trimmed(s) ==
    LET solid == {k \in 1..Len(s) : ~IsSpace(s[k])}
    IN  IF solid = {} THEN <<>> ELSE SubSeq(s, Min(solid), Max(solid))

LineName(l) == Trimmed(SubSeq(l, 1, Min(Cuts(l, ":")) - 1))

LineKeywords(l) ==
    LET ps == Pieces(SubSeq(l, Min(Cuts(l, ":")) + 1, Len(l)), ",")
    IN  SelectSeq([j \in 1..Len(ps) |-> Trimmed(ps[j])], NonEmpty)

LineGroup(l) == [groupName |-> LineName(l), keywords |-> LineKeywords(l)]

\* A valid line as the claim states it.
ClaimedValid(l) == l # <<>> /\ Cuts(l, ":") # {} /\ LineKeywords(l) # <<>>

\* A valid line as the code decides it: the name must be non-empty too.
NamedValid(l) == ClaimedValid(l) /\ LineName(l) # <<>>

ClaimedGroups(text) ==
    LET ls == SelectSeq(Pieces(text, NL), ClaimedValid)
    IN  [j \in 1..Len(ls) |-> LineGroup(ls[j])]

NamedGroups(text) ==
    LET ls == SelectSeq(Pieces(text, NL), NamedValid)
    IN  [j \in 1..Len(ls) |-> LineGroup(ls[j])]

\* C6 as stated: parse_groups emits, in input order, exactly one group per
\* line that is non-empty, contains a colon and has at least one non-empty
\* trimmed keyword right of the first colon; name and keywords are trimmed.
C6_GroupPerColonLine == ret # NotCalled => ret[1] = ClaimedGroups(arg)

\* C6 amended: as above, and the trimmed name left of the first colon must be
\* non-empty as well; a line with an empty name yields no group.
C6_GroupPerNamedLine == ret # NotCalled => ret[1] = NamedGroups(arg)

\* Two groups parsed out of a two-line text.
C6_Witness == ret # NotCalled /\ Len(ret[1]) = 2 /\ Len(Pieces(arg, NL)) = 2

-----------------------------------------------------------------------------
(* Properties of calc_ratios (SpecRatios). *)

Clamped(x) == IF x < 0 THEN 0 ELSE x

\* r (in units of 10^-6) is n/d rounded to 6 decimals: no multiple of 10^-6 is
\* nearer to n/d.
IsRounded6(r, n, d) ==
    LET err == r * d - n * Micro
    IN  2 * (IF err < 0 THEN -err ELSE err) <= d

\* C5: counts are clamped to be non-negative; both ratios are 0.0 when the
\* clamped view count is 0, and otherwise count/view rounded to 6 decimals.
C5_Ratios ==
    ret # NotCalled =>
        LET view == Clamped(arg.view_count)
            like == Clamped(arg.like_count)
            comt == Clamped(arg.comment_count)
        IN  IF view = 0
            THEN ret[1].like_ratio = 0 /\ ret[1].comment_ratio = 0
            ELSE /\ IsRounded6(ret[1].like_ratio, like, view)
                 /\ IsRounded6(ret[1].comment_ratio, comt, view)

\* 2/3 rounds up to 0.666667 while a negative comment count is clamped to 0.
C5_Witness ==
    /\ ret # NotCalled
    /\ arg.view_count = 3 /\ arg.like_count = 2 /\ arg.comment_count = -1
    /\ ret[1].like_ratio = 666667 /\ ret[1].comment_ratio = 0

-----------------------------------------------------------------------------
(* Properties of yt_to_dataframe (SpecTable). *)

AtLeastMinViews(v) == v.view_count >= MinViews

Shown(r) == [title |-> r.title, url |-> r.url, view_count |-> r.view_count]

C8_TableAbove100 ==
    ret # NotCalled => \A k \in 1..Len(ret[1].rows) : ret[1].rows[k].view_count > MinViews

-----------------------------------------------------------------------------
(* Properties of fetch_all_youtube (SpecPaging).                           *)
(* What the provider served is read off the log of network calls.          *)

\* Every item of every page served, in order; and the identifiers among them.
ItemsServed(S) == Flatten([k \in 1..Len(S) |-> S[k].resp.items])

IdsServed(S) ==
    LET its == SelectSeq(ItemsServed(S), LAMBDA it : it.videoId # 0)
    IN  [k \in 1..Len(its) |-> its[k].videoId]

HasNext(m) == m.resp.ok /\ m.resp.nextPageToken # 0

\* The last search answered without a continuation token.
Exhausted(S) == S # <<>> /\ Last(S).resp.ok /\ Last(S).resp.nextPageToken = 0

\* The identifiers the function holds once the loop has ended.
Collected == IF pc = "videos" THEN all_ids ELSE <<>>

\* Each search carries the token of the page before it, no search follows a
\* page without a token, and the loop goes on after a page with one.
Paging(S) ==
    /\ \A k \in 1..Len(S) :
          S[k].pageToken = IF k = 1 THEN 0 ELSE S[k - 1].resp.nextPageToken
    /\ \A k \in 1..(Len(S) - 1) : HasNext(S[k])
    /\ pc = "search" => (S = <<>> \/ HasNext(Last(S)))
    /\ (S # <<>> /\ HasNext(Last(S))) => pc = "search"

\* C1 as stated: one search per page, each with the previous page's token,
\* stopping exactly at the first page without a token; then the number of
\* collected identifiers is the sum of the item counts of the pages fetched.
C1_CollectsEveryItem ==
    LET S == Searches(net)
    IN  /\ Paging(S)
        /\ (Exhausted(S) /\ Details(net) = <<>>) => Len(Collected) = Len(ItemsServed(S))

\* C1 amended: as above, but the number of collected identifiers is the number
\* of items that carry a video identifier, summed over the pages fetched; the
\* collected identifiers are those items' identifiers in page order, none
\* dropped, added or de-duplicated.
C1_CollectsEveryIdentifier ==
    LET S == Searches(net)
    IN  /\ Paging(S)
        /\ pc = "search" => all_ids = IdsServed(S)
        /\ (Exhausted(S) /\ Details(net) = <<>>) =>
              /\ Collected = IdsServed(S)
              /\ pc = "videos" \/ (pc = "idle" /\ result = [status |-> "returned", value |-> <<<<>>>>])
              /\ pc = "idle" => IdsServed(S) = <<>>

\* Three pages with 101 items were fetched and the 100 identifiers among them
\* collected, some of them twice.
C1_Witness ==
    /\ pc = "videos"
    /\ Len(Searches(net)) = 3
    /\ Len(all_ids) = 2 * maxResults
    /\ Len(ItemsServed(Searches(net))) = 2 * maxResults + 1

ChunkIds(D) == Flatten([k \in 1..Len(D) |-> D[k].id])
Returned(D) == Flatten([k \in 1..Len(D) |-> D[k].resp.items])

\* C9: detail calls come only after pagination is exhausted; n identifiers
\* take ceil(n/50) detail calls of at most 50 identifiers each, the chunks in
\* order partition the identifier sequence, and the result is the records the
\* chunks returned, concatenated in call order; with n = 0 there is no detail
\* call and the result is empty.
C9_ChunkedDetails ==
    LET S   == Searches(net)
        D   == Details(net)
        ids == IdsServed(S)
        n   == Len(ids)
    IN  /\ \A j \in 1..Len(net) : \A k \in 1..Len(net) :
              (j < k /\ net[j].kind = "videos") => net[k].kind = "videos"
        /\ D # <<>> => Exhausted(S)
        /\ \A k \in 1..Len(D) : Len(D[k].id) >= 1 /\ Len(D[k].id) <= ChunkSize
        /\ Len(ChunkIds(D)) <= n /\ ChunkIds(D) = SubSeq(ids, 1, Len(ChunkIds(D)))
        /\ (pc = "idle" /\ result.status = "returned" /\ net # <<>>) =>
              /\ Len(D) = (n + ChunkSize - 1) \div ChunkSize
              /\ ChunkIds(D) = ids
              /\ result.value[1] = videos_of(Returned(D))
              /\ n = 0 => (D = <<>> /\ result.value[1] = <<>>)

\* 101 identifiers were looked up in three detail calls of 50, 50 and 1.
C9_Witness ==
    /\ pc = "idle" /\ result.status = "returned"
    /\ Len(Details(net)) = 3
    /\ Len(Details(net)[3].id) = 1
    /\ Len(result.value[1]) > ChunkSize

-----------------------------------------------------------------------------
(* Properties of the cached fetchers called directly (SpecCalls). *)

\* This step is a call of fn(key).
Calls(fn, key) ==
    pc = "idle" /\ now' = now /\ call'.fn = fn /\ call'.key = key /\ net' = <<>>

\* This step answers the call from the entry e without touching the network.
Answered(e) ==
    pc' = "idle" /\ net' = <<>> /\ result' = [status |-> "returned", value |-> <<e.value>>]

\* Every step of a running fetch issues one network call.
StepsAreCalls == (pc # "idle" /\ now' = now) => Len(net') = Len(net) + 1

\* C2 as stated: once fn(P) returned, a call of fn(P) made before the entry is
\* 600 s old returns the same output without a network call; one made later
\* issues a fresh network call.
C2_CachedThenFresh ==
    [][ /\ StepsAreCalls
        /\ \A fn \in {"fetch_datalab", "fetch_all_youtube"} : \A e \in ledger[fn] :
              Calls(fn, e.key) =>
                  IF now - e.at < ttl(fn) THEN Answered(e) ELSE pc' # "idle" ]_vars

\* C2 amended: a call made after the time-to-live runs the function again, which
\* issues a fresh network call unless it is fetch_datalab with an empty list
\* of keyword groups, which returns an empty table without any network call.
C2_CachedThenRerun ==
    [][ /\ StepsAreCalls
        /\ \A fn \in {"fetch_datalab", "fetch_all_youtube"} : \A e \in ledger[fn] :
              Calls(fn, e.key) =>
                  IF now - e.at < ttl(fn) THEN Answered(e)
                  ELSE \/ pc' # "idle"
                       \/ /\ fn = "fetch_datalab" /\ e.key.keyword_groups = <<>>
                          /\ Answered([value |-> EmptyFrame])
                          /\ \E f \in cache'[fn] : f.key = e.key /\ f.at = now ]_vars

\* A result fetched again after the first one expired answers a later call.
C2_Witness ==
    /\ pc = "idle" /\ call.fn = "fetch_all_youtube" /\ net = <<>>
    /\ result.status = "returned" /\ result.value[1] # <<>>
    /\ \E e \in cache.fetch_all_youtube :
          e.key = call.key /\ e.at >= ttl_fetch_all_youtube /\ now > e.at

\* C7: fetch_datalab with an empty list of keyword groups issues no network
\* call and returns an empty table, whatever the dates and the time unit.
C7_EmptyGroupsNoCall ==
    (call.fn = "fetch_datalab" /\ call.key.keyword_groups = <<>>) =>
        /\ pc = "idle"
        /\ net = <<>>
        /\ result.status = "returned"
        /\ result.value[1].rows = <<>>

\* The call with no groups was made after the clock had moved, with the dates
\* reversed.
C7_Witness ==
    /\ call.fn = "fetch_datalab" /\ call.key.keyword_groups = <<>>
    /\ call.key.start_date > call.key.end_date
    /\ result.status = "returned"
    /\ now > 0

-----------------------------------------------------------------------------
(* Properties of the script runs (SpecApp). *)

NaverRejected ==
    /\ widgets.mode = "Naver DataLab" /\ widgets.run
    /\ \/ ~secrets.naver
       \/ widgets.start_date > widgets.end_date
       \/ NamedGroups(widgets.groups_raw) = <<>>

YoutubeRejected ==
    /\ widgets.mode = "YouTube" /\ widgets.run
    /\ \/ ~secrets.youtube
       \/ Trimmed(widgets.keyword) = <<>>

\* C3: a run whose validation fails (credentials missing, start date after
\* end date, no keyword group; API key missing, keyword empty after trimming)
\* ends with an error or a warning and calls no fetcher and no network.
C3_RejectedBeforeFetch ==
    (NaverRejected \/ YoutubeRejected) =>
        /\ pc = "idle"
        /\ call.fn = None
        /\ net = <<>>
        /\ ui.shown \in {"error: credentials", "error: dates", "warning: groups",
                         "error: keyword"}
        /\ ui.table = <<>>

\* Reversed dates are rejected although the credentials and the groups are
\* fine and time has passed since the process started.
C3_Witness ==
    /\ widgets.mode = "Naver DataLab" /\ widgets.run /\ secrets.naver
    /\ widgets.start_date > widgets.end_date
    /\ NamedGroups(widgets.groups_raw) # <<>>
    /\ ui.shown = "error: dates"
    /\ now > 0

Failed(m) ==
    IF m.kind = "urlopen" THEN m.code # 200 ELSE ~m.resp.ok

\* C10: a failed network call is the last one of its run: nothing is called
\* after it, it is not retried, the fetch raises, nothing gathered before the
\* failure is returned, stored or shown, and the run stays in its error state.
C10_FailureAborts ==
    \A k \in 1..Len(net) :
        Failed(net[k]) =>
            /\ k = Len(net)
            /\ pc = "idle"
            /\ result = [status |-> "raised", value |-> <<>>]
            /\ ui = [shown |-> "exception", metric |-> 0, table |-> <<>>]
            /\ Hits(call.fn, call.key, now) = {}

\* The second detail call failed after two searches and one detail call.
C10_Witness ==
    /\ Len(net) = 4
    /\ net[3].kind = "videos" /\ net[3].resp.ok
    /\ net[4].kind = "videos" /\ ~net[4].resp.ok
    /\ ui.shown = "exception"

=============================================================================
